---- MODULE Spec2Model ----
(***************************************************************************)
(* Model of predict() in simurg_predict_api.py: sub-word merge of the NER  *)
(* pipeline's output, injection of @-mentions, ORG filter and stable sort, *)
(* adjacency clustering and right-context sentiment attribution.           *)
(*                                                                         *)
(* Strings are sequences of one-character strings; offsets are 0-based as  *)
(* in the Python source, and slices follow Python's clamping semantics.    *)
(***************************************************************************)
EXTENDS Integers, Sequences, FiniteSets

VARIABLES
    test_sentence,      \* item.text
    test_sentence_cap,  \* test_sentence.capitalize()
    ner_results,        \* what ner_pipeline returned
    combined_entities,
    n,                  \* number of ner_results the merge loop has consumed
    tokens,             \* test_sentence.split()
    idx,                \* number of tokens the injection loop has consumed
    organizations,
    entity_list,
    results,
    i,                  \* loop index of the cluster loop (0-based)
    org,
    start_idx,
    end_idx,
    context,
    sentiment_label,
    calls,              \* the texts sentiment_pipeline was invoked on, in order
    pc

vars == <<test_sentence, test_sentence_cap, ner_results, combined_entities, n,
          tokens, idx, organizations, entity_list, results, i, org, start_idx,
          end_idx, context, sentiment_label, calls, pc>>

(***************************************************************************)
(* Bounds of the model.                                                    *)
(***************************************************************************)
MaxLen == 4     \* length of the enumerated head of the input text
MaxTags == 3    \* number of groups the tagger returns

context_window_size == 10

\* characters of the enumerated head of the text
Alphabet == {"a", "@", " "}

Min(a, b) == IF a <= b THEN a ELSE b

(***************************************************************************)
(* Python string primitives.                                               *)
(***************************************************************************)
\* s[a:b] for a, b >= 0
PySlice(s, a, b) ==
    LET lo == Min(a, Len(s))
        hi == Min(b, Len(s))
    IN  IF lo >= hi THEN <<>> ELSE SubSeq(s, lo + 1, hi)

Upper(c) == IF c = "a" THEN "A" ELSE c
Lower(c) == IF c = "A" THEN "a" ELSE c

\* str.capitalize(): first character upper-cased, the rest lower-cased
Capitalize(s) ==
    [k \in 1..Len(s) |-> IF k = 1 THEN Upper(s[k]) ELSE Lower(s[k])]

IsSpace(c) == c = " "

\* s.startswith(p)
StartsWith(s, p) == Len(s) >= Len(p) /\ SubSeq(s, 1, Len(p)) = p

\* str.split(): maximal runs of non-whitespace characters, left to right
RECURSIVE SplitFrom(_, _, _)
SplitFrom(s, k, cur) ==
    IF k > Len(s)
    THEN IF cur = <<>> THEN <<>> ELSE <<cur>>
    ELSE IF IsSpace(s[k])
         THEN (IF cur = <<>> THEN <<>> ELSE <<cur>>) \o SplitFrom(s, k + 1, <<>>)
         ELSE SplitFrom(s, k + 1, Append(cur, s[k]))

Split(s) == SplitFrom(s, 1, <<>>)

\* variant of Find: the last occurrence, as s.rfind(t)
FindLast(s, t) ==
    LET hits == {p \in 0..(Len(s) - Len(t)) : SubSeq(s, p + 1, p + Len(t)) = t}
    IN  IF hits = {} THEN -1
        ELSE CHOOSE p \in hits : \A q \in hits : p >= q

\* s.find(t): 0-based index of the first occurrence of t in s, -1 if none
Find(s, t) ==
    LET hits == {p \in 0..(Len(s) - Len(t)) : SubSeq(s, p + 1, p + Len(t)) = t}
    IN  IF hits = {} THEN -1
        ELSE CHOOSE p \in hits : \A q \in hits : p <= q

(***************************************************************************)
(* Inputs: the request text and the answers of the two pipelines.          *)
(***************************************************************************)
SeqsUpTo(S, m) == UNION {[1..k -> S] : k \in 0..m}

\* a word longer than the context window, with an upper-case first letter
Filler == [k \in 1..(context_window_size + 1) |-> IF k = 1 THEN "A" ELSE "a"]

Texts == {head \o tail : head \in SeqsUpTo(Alphabet, MaxLen), tail \in {<<>>, Filler}}

Groups == {"ORG", "PER"}

ContinuationMarker == <<"#", "#">>

IsLetter(c) == c \in {"a", "A"}

\* One group of the aggregated NER output over the text t it was given: the
\* word is the text of the group's span, with the word-piece marker in front
\* when the group begins with a continuation piece.
RawTag(t, g, cont, s, e) ==
    [entity_group |-> g,
     word |-> (IF cont THEN ContinuationMarker ELSE <<>>) \o PySlice(t, s, e),
     start |-> s,
     end |-> e]

\* A group covers whole word pieces: it neither begins nor ends on
\* whitespace, and it begins with a continuation piece exactly when it begins
\* between two letters of one word.
TagFits(t, cont, s, e) ==
    /\ s < e
    /\ ~IsSpace(t[s + 1])
    /\ ~IsSpace(t[e])
    /\ cont <=> (s >= 1 /\ IsLetter(t[s]) /\ IsLetter(t[s + 1]))

\* The groups come out left to right over disjoint character ranges: the
\* sequences of at most m spans of t[0:len] that begin at offset lo or later.
RECURSIVE SpanSeqs(_, _, _, _)
SpanSeqs(t, len, lo, m) ==
    IF m = 0 THEN {<<>>}
    ELSE LET Spans == {sp \in (lo..len) \X (lo..len) \X BOOLEAN :
                          TagFits(t, sp[3], sp[1], sp[2])}
         IN  {<<>>} \cup
             UNION {{<<sp>> \o rest : rest \in SpanSeqs(t, len, sp[2], m - 1)} :
                    sp \in Spans}

TaggerOutputs(t) ==
    UNION {{[k \in 1..Len(q) |-> RawTag(t, g[k], q[k][3], q[k][1], q[k][2])] :
               g \in [1..Len(q) -> Groups]} :
           q \in SpanSeqs(t, Min(Len(t), MaxLen), 0, MaxTags)}

\* labels sentiment_pipeline may answer with
RawLabels == {"Negative", "Neutral", "Positive", "negative", ""}

NoEntity == [entity_group |-> "", word |-> <<>>, start |-> 0, end |-> 0]

(***************************************************************************)
(* Helpers of predict().                                                   *)
(***************************************************************************)
\* variant of ExtendLast: the merged word sliced from the capitalized copy
ExtendLastCap(last, entity, text) ==
    [last EXCEPT !.word = PySlice(test_sentence_cap, last.start, entity.end),
                 !.end = entity.end]

\* variant of ExtendLast: the fragment glued to the word, marker dropped
ExtendLastJoin(last, entity, text) ==
    [last EXCEPT !.word = last.word \o SubSeq(entity.word, 3, Len(entity.word)),
                 !.end = entity.end]

\* lines 52-56: the last accumulated entity, extended by a continuation tag
ExtendLast(last, entity, text) ==
    [last EXCEPT !.word = PySlice(text, last.start, entity.end),
                 !.end = entity.end]

\* variant of MentionEntity: the mention gets a group of its own
MentionEntityOwnGroup(text, token) ==
    LET start == Find(text, token)
    IN  [entity_group |-> "MENTION", word |-> token,
         start |-> start, end |-> start + Len(token)]

\* lines 64-71: the synthetic entity of an @-token
MentionEntity(text, token) ==
    LET start == Find(text, token)
    IN  [entity_group |-> "ORG", word |-> token,
         start |-> start, end |-> start + Len(token)]

\* variant of IsOrg: every named group passes the filter
IsAnyGroup(entity) == entity.entity_group # ""

IsOrg(entity) == entity.entity_group = "ORG"

\* line 74
FilterOrgs(es) == SelectSeq(es, IsOrg)

\* line 77: sorted(..., key=start) is stable
SortByStart(es) ==
    LET rank(j) == Cardinality({k \in 1..Len(es) :
                        \/ es[k].start < es[j].start
                        \/ es[k].start = es[j].start /\ k < j}) + 1
    IN  [r \in 1..Len(es) |-> es[CHOOSE j \in 1..Len(es) : rank(j) = r]]

\* variant of Nearby: a gap of two characters is absorbed as well
NearbyTwo(next, cluster_end) == next.start - cluster_end <= 2

\* line 92: the test that absorbs the next organization into the cluster
Nearby(next, cluster_end) == next.start - cluster_end <= 1

\* variant of ContextOf: the window also looks to the left of the cluster end
ContextOfAround(text, cluster_end) ==
    PySlice(text,
            IF cluster_end >= context_window_size
            THEN cluster_end - context_window_size ELSE 0,
            Min(Len(text), cluster_end + context_window_size))

\* lines 97-99
ContextOf(text, cluster_end) ==
    PySlice(text, cluster_end, Min(Len(text), cluster_end + context_window_size))

\* variant of SentimentText: no default for an unexpected label
SentimentTextNoDefault(label) ==
    IF label = "Negative" THEN "olumsuz"
    ELSE IF label = "Neutral" THEN "nötr"
    ELSE IF label = "Positive" THEN "olumlu"
    ELSE label

\* lines 108-115
SentimentText(label) ==
    IF label = "Negative" THEN "olumsuz"
    ELSE IF label = "Neutral" THEN "nötr"
    ELSE IF label = "Positive" THEN "olumlu"
    ELSE "nötr"

\* variant of ResultOf: the entity of the last organization absorbed
ResultOfLastAbsorbed(o, label) ==
    [entity |-> organizations[i + 1].word, sentiment |-> SentimentText(label)]

\* lines 117-120
ResultOf(o, label) == [entity |-> o.word, sentiment |-> SentimentText(label)]

(***************************************************************************)
(* The request: one call of predict().                                     *)
(***************************************************************************)
Init ==
    /\ test_sentence \in Texts
    /\ test_sentence_cap = <<>>
    /\ ner_results = <<>>
    /\ combined_entities = <<>>
    /\ n = 0
    /\ tokens = <<>>
    /\ idx = 0
    /\ organizations = <<>>
    /\ entity_list = <<>>
    /\ results = <<>>
    /\ i = 0
    /\ org = NoEntity
    /\ start_idx = 0
    /\ end_idx = 0
    /\ context = <<>>
    /\ sentiment_label = ""
    /\ calls = <<>>
    /\ pc = "tag"

\* lines 40-48: capitalize a copy and run the tagger on it
Tag ==
    /\ pc = "tag"
    /\ test_sentence_cap' = Capitalize(test_sentence)
    /\ ner_results' \in TaggerOutputs(test_sentence_cap')
    /\ combined_entities' = <<>>
    /\ n' = 0
    /\ pc' = "merge"
    /\ UNCHANGED <<test_sentence, tokens, idx, organizations, entity_list, results,
                   i, org, start_idx, end_idx, context, sentiment_label, calls>>

\* lines 49-58: one iteration of the merge loop.  The dictionaries appended
\* are the ones of ner_results; the loop only rewrites entries it has passed,
\* so ner_results is kept as the tagger returned it.
MergeStep ==
    /\ pc = "merge"
    /\ n < Len(ner_results)
    /\ LET entity == ner_results[n + 1]
           m == Len(combined_entities)
       IN  combined_entities' =
              IF StartsWith(entity.word, ContinuationMarker) /\ combined_entities # <<>>
              THEN [combined_entities EXCEPT
                       ![m] = ExtendLast(combined_entities[m], entity, test_sentence)]
              ELSE Append(combined_entities, entity)
    /\ n' = n + 1
    /\ UNCHANGED <<test_sentence, test_sentence_cap, ner_results, tokens, idx,
                   organizations, entity_list, results, i, org, start_idx, end_idx,
                   context, sentiment_label, calls, pc>>

\* line 61
SplitTokens ==
    /\ pc = "merge"
    /\ n = Len(ner_results)
    /\ tokens' = Split(test_sentence)
    /\ idx' = 0
    /\ pc' = "inject"
    /\ UNCHANGED <<test_sentence, test_sentence_cap, ner_results, combined_entities,
                   n, organizations, entity_list, results, i, org, start_idx,
                   end_idx, context, sentiment_label, calls>>

\* lines 62-71: one iteration of the injection loop
InjectStep ==
    /\ pc = "inject"
    /\ idx < Len(tokens)
    /\ LET token == tokens[idx + 1]
       IN  combined_entities' =
              IF StartsWith(token, <<"@">>)
              THEN Append(combined_entities, MentionEntity(test_sentence, token))
              ELSE combined_entities
    /\ idx' = idx + 1
    /\ UNCHANGED <<test_sentence, test_sentence_cap, ner_results, n, tokens,
                   organizations, entity_list, results, i, org, start_idx, end_idx,
                   context, sentiment_label, calls, pc>>

\* lines 73-85
FilterSort ==
    /\ pc = "inject"
    /\ idx = Len(tokens)
    /\ organizations' = SortByStart(FilterOrgs(combined_entities))
    /\ entity_list' = <<>>
    /\ results' = <<>>
    /\ i' = 0
    /\ pc' = "loop"
    /\ UNCHANGED <<test_sentence, test_sentence_cap, ner_results, combined_entities,
                   n, tokens, idx, org, start_idx, end_idx, context,
                   sentiment_label, calls>>

\* lines 86-89: the cluster loop takes the next organization
ClusterBegin ==
    /\ pc = "loop"
    /\ i < Len(organizations)
    /\ org' = organizations[i + 1]
    /\ start_idx' = organizations[i + 1].start
    /\ end_idx' = organizations[i + 1].end
    /\ pc' = "inner"
    /\ UNCHANGED <<test_sentence, test_sentence_cap, ner_results, combined_entities,
                   n, tokens, idx, organizations, entity_list, results, i, context,
                   sentiment_label, calls>>

\* lines 92-94: one iteration of the inner loop
Absorb ==
    /\ pc = "inner"
    /\ i + 1 < Len(organizations)
    /\ Nearby(organizations[i + 2], end_idx)
    /\ end_idx' = organizations[i + 2].end
    /\ i' = i + 1
    /\ UNCHANGED <<test_sentence, test_sentence_cap, ner_results, combined_entities,
                   n, tokens, idx, organizations, entity_list, results, org,
                   start_idx, context, sentiment_label, calls, pc>>

\* lines 97-106: the context window, the classifier's answer, entity_list
Classify ==
    /\ pc = "inner"
    /\ ~(i + 1 < Len(organizations) /\ Nearby(organizations[i + 2], end_idx))
    /\ context' = ContextOf(test_sentence, end_idx)
    /\ calls' = Append(calls, context')
    /\ sentiment_label' \in RawLabels
    /\ entity_list' = Append(entity_list, org.word)
    /\ pc' = "record"
    /\ UNCHANGED <<test_sentence, test_sentence_cap, ner_results, combined_entities,
                   n, tokens, idx, organizations, results, i, org, start_idx,
                   end_idx>>

\* lines 108-122: the mapped label, results, the loop index
Record ==
    /\ pc = "record"
    /\ results' = Append(results, ResultOf(org, sentiment_label))
    /\ i' = i + 1
    /\ pc' = "loop"
    /\ UNCHANGED <<test_sentence, test_sentence_cap, ner_results, combined_entities,
                   n, tokens, idx, organizations, entity_list, org, start_idx,
                   end_idx, context, sentiment_label, calls>>

\* lines 125-130
Return ==
    /\ pc = "loop"
    /\ i >= Len(organizations)
    /\ pc' = "done"
    /\ UNCHANGED <<test_sentence, test_sentence_cap, ner_results, combined_entities,
                   n, tokens, idx, organizations, entity_list, results, i, org,
                   start_idx, end_idx, context, sentiment_label, calls>>

Next ==
    \/ Tag
    \/ MergeStep
    \/ SplitTokens
    \/ InjectStep
    \/ FilterSort
    \/ ClusterBegin
    \/ Absorb
    \/ Classify
    \/ Record
    \/ Return

Spec == Init /\ [][Next]_vars

(***************************************************************************)
(* Vocabulary of the properties, stated on positions of the text and of    *)
(* the tagger's output rather than through the helpers above.              *)
(***************************************************************************)
Sentiments == {"olumsuz", "nötr", "olumlu"}

IsContinuation(tag) ==
    Len(tag.word) >= 2 /\ tag.word[1] = "#" /\ tag.word[2] = "#"

\* the tags among the first m that open an accumulated entity
Heads(m) == {k \in 1..m : k = 1 \/ ~IsContinuation(ner_results[k])}

\* the tag that opened the j-th accumulated entity
HeadOf(j, m) == CHOOSE h \in Heads(m) : Cardinality({k \in Heads(m) : k <= h}) = j

\* the last tag among the first m glued to the entity opened by tag h
RunEnd(h, m) == CHOOSE r \in h..m :
    /\ \A k \in (h + 1)..r : k \notin Heads(m)
    /\ r = m \/ (r + 1) \in Heads(m)

\* 1-based positions where a whitespace-delimited token begins with '@'
MentionStarts ==
    {p \in 1..Len(test_sentence) :
        /\ test_sentence[p] = "@"
        /\ p = 1 \/ test_sentence[p - 1] = " "}

\* the token that begins at position p
TokenAt(p) ==
    LET stop == CHOOSE q \in p..Len(test_sentence) :
                    /\ \A k \in p..q : test_sentence[k] # " "
                    /\ q = Len(test_sentence) \/ test_sentence[q + 1] = " "
    IN  SubSeq(test_sentence, p, stop)

\* the characters of the text at 0-based offsets a .. b-1
Chars(a, b) == [k \in 1..(b - a) |-> test_sentence[a + k]]

SliceOk(e) ==
    /\ 0 <= e.start /\ e.start <= e.end /\ e.end <= Len(test_sentence)
    /\ e.word = Chars(e.start, e.end)

\* gap between consecutive entries k and k+1 of the sorted organization list
Gap(k) == organizations[k + 1].start - organizations[k].end

\* the entries of the sorted organization list that open a cluster
ClusterStarts ==
    {k \in 1..Len(organizations) : k = 1 \/ Gap(k - 1) >= 2}

NthStart(j) ==
    CHOOSE k \in ClusterStarts : Cardinality({m \in ClusterStarts : m <= k}) = j

InLoop == pc \in {"loop", "inner", "record", "done"}

(***************************************************************************)
(* C1: at the head of every iteration of the cluster loop and on return,   *)
(* entity_list and results have the same length and entity_list[k] is      *)
(* results[k].entity for every k.                                          *)
(***************************************************************************)
C1_OutputAligned ==
    pc # "record" =>
        /\ Len(entity_list) = Len(results)
        /\ \A k \in 1..Len(results) : entity_list[k] = results[k].entity

C1_Witness ==
    /\ pc = "done"
    /\ Len(results) = 2
    /\ entity_list[1] # entity_list[2]

(***************************************************************************)
(* C2: every sentiment written to a result is one of the three output      *)
(* values; Negative, Neutral and Positive map to olumsuz, nötr and olumlu  *)
(* and every other raw label maps to nötr.                                 *)
(***************************************************************************)
C2_LabelMappingTotal ==
    /\ \A k \in 1..Len(results) : results[k].sentiment \in Sentiments
    /\ (pc \in {"loop", "done"} /\ results # <<>>) =>
          LET last == results[Len(results)].sentiment
          IN  /\ sentiment_label = "Negative" => last = "olumsuz"
              /\ sentiment_label = "Neutral" => last = "nötr"
              /\ sentiment_label = "Positive" => last = "olumlu"
              /\ sentiment_label \notin {"Negative", "Neutral", "Positive"}
                    => last = "nötr"

C2_Witness ==
    /\ pc = "done"
    /\ Len(results) = 2
    /\ sentiment_label = "negative"
    /\ results[1].sentiment = "olumlu"
    /\ results[2].sentiment = "nötr"

(***************************************************************************)
(* C3: consecutive organizations whose gap (next.start - prev.end) is at   *)
(* most 1, so 0 and 1 in particular, fall in one cluster with one result;  *)
(* a gap of 2 or more opens a new cluster with its own result and its own  *)
(* classifier invocation.                                                  *)
(***************************************************************************)
C3_ClusterThreshold ==
    pc = "done" =>
        /\ Len(results) = Cardinality(ClusterStarts)
        /\ Len(calls) = Cardinality(ClusterStarts)
        /\ \A j \in 1..Len(results) :
              results[j].entity = organizations[NthStart(j)].word

C3_Witness ==
    /\ pc = "done"
    /\ Len(organizations) = 2
    /\ Gap(1) = 2
    /\ Len(results) = 2
    /\ Len(calls) = 2

\* reachable as well: gaps of 1 and of 0 that were merged
C3_MergedGapOne ==
    pc = "done" /\ Len(organizations) = 2 /\ Gap(1) = 1 /\ Len(results) = 1

C3_MergedGapZero ==
    pc = "done" /\ Len(organizations) = 2 /\ Gap(1) = 0 /\ Len(results) = 1

(***************************************************************************)
(* C4 as stated: when the tagger returns nothing, every token that begins  *)
(* with '@' is in the returned entity_list.                                *)
(***************************************************************************)
C4_EveryMentionReported ==
    (pc = "done" /\ ner_results = <<>>) =>
        \A p \in MentionStarts :
            \E j \in 1..Len(entity_list) : entity_list[j] = TokenAt(p)

(***************************************************************************)
(* C4 amended: when the tagger returns nothing, every token that begins    *)
(* with '@' is an entry of the sorted organization list, and a string is   *)
(* in entity_list exactly when it is the word of an entry that is first in *)
(* the list or starts two or more characters after the end of the entry    *)
(* before it; a mention absorbed into the preceding cluster is not         *)
(* reported.                                                               *)
(***************************************************************************)
C4_MentionsAreOrganizations ==
    (pc = "done" /\ ner_results = <<>>) =>
        /\ \A p \in MentionStarts :
              \E k \in 1..Len(organizations) :
                  /\ organizations[k].word = TokenAt(p)
                  /\ organizations[k].entity_group = "ORG"
        /\ {entity_list[j] : j \in 1..Len(entity_list)}
              = {organizations[k].word : k \in ClusterStarts}
        /\ MentionStarts # {} => entity_list # <<>>

C4_Witness ==
    /\ pc = "done"
    /\ ner_results = <<>>
    /\ Cardinality(MentionStarts) = 2
    /\ Len(entity_list) = 1
    /\ \E p \in MentionStarts : TokenAt(p) # entity_list[1]

C5_FullWindow ==
    /\ pc = "record"
    /\ Len(calls[Len(calls)]) = 10
    /\ end_idx + 10 < Len(test_sentence)

(***************************************************************************)
(* C6: a text with no token that begins with '@', for which the tagger     *)
(* returns no ORG group, yields an empty entity_list and empty results,    *)
(* and the classifier is never invoked.                                    *)
(***************************************************************************)
C6_NothingToReport ==
    (/\ MentionStarts = {}
     /\ \A k \in 1..Len(ner_results) : ner_results[k].entity_group # "ORG") =>
        /\ calls = <<>>
        /\ entity_list = <<>>
        /\ results = <<>>
        /\ InLoop => organizations = <<>>

C6_Witness ==
    /\ pc = "done"
    /\ MentionStarts = {}
    /\ \A k \in 1..Len(ner_results) : ner_results[k].entity_group # "ORG"
    /\ Len(ner_results) = 2
    /\ \E p \in 1..Len(test_sentence) : test_sentence[p] = "@"
    /\ results = <<>>

(***************************************************************************)
(* C7: after the merge loop has consumed m tags, there is one accumulated  *)
(* entity per tag that is first or is no continuation; an entity no        *)
(* continuation followed is its tag as the tagger returned it (also when   *)
(* that tag is a continuation with nothing before it), and an entity       *)
(* followed by a run of continuations keeps its group and start, ends      *)
(* where the last fragment of the run ends, and its text is the original   *)
(* text from its start to that end.                                        *)
(***************************************************************************)
C7_SubwordMerge ==
    pc = "merge" =>
        /\ Len(combined_entities) = Cardinality(Heads(n))
        /\ \A j \in 1..Len(combined_entities) :
              LET h == HeadOf(j, n)
                  r == RunEnd(h, n)
                  e == combined_entities[j]
              IN  IF r = h
                  THEN e = ner_results[h]
                  ELSE /\ e.entity_group = ner_results[h].entity_group
                       /\ e.start = ner_results[h].start
                       /\ e.end = ner_results[r].end
                       /\ e.word = Chars(e.start, e.end)

C7_Witness ==
    /\ pc = "merge"
    /\ n = 3
    /\ Len(combined_entities) = 1
    /\ ~IsContinuation(ner_results[1])
    /\ ner_results[2].start > ner_results[1].end
    /\ combined_entities[1].end = ner_results[3].end
    /\ combined_entities[1].word
          # PySlice(test_sentence_cap, combined_entities[1].start, combined_entities[1].end)

\* reachable as well: a continuation with nothing before it, kept as it is
C7_FreshContinuation ==
    /\ pc = "merge"
    /\ n = 2
    /\ IsContinuation(ner_results[1])
    /\ ~IsContinuation(ner_results[2])
    /\ combined_entities = ner_results

(***************************************************************************)
(* C8 as stated: every entry of the sorted organization list has           *)
(* text == original_text[start:end].                                       *)
(***************************************************************************)
C8_EveryOrganizationIsSlice ==
    InLoop => \A k \in 1..Len(organizations) : SliceOk(organizations[k])

(***************************************************************************)
(* C8 amended: an entity that a continuation fragment extended, and every  *)
(* injected mention, has text == original_text[start:end]; an entity of    *)
(* the tagger that no continuation followed is the tagger's group as       *)
(* returned, whose word is text of the capitalized copy.  Every entry of   *)
(* the organization list is one of these entities, and every string of     *)
(* entity_list is the word of an entry.                                    *)
(***************************************************************************)
C8_SlicedEntitiesMatchText ==
    pc \in {"inject", "loop", "done"} =>
        LET total == Len(ner_results)
            merged == Cardinality(Heads(total))
        IN  /\ \A j \in 1..Len(combined_entities) :
                  IF j > merged
                  THEN SliceOk(combined_entities[j])
                  ELSE IF RunEnd(HeadOf(j, total), total) > HeadOf(j, total)
                       THEN SliceOk(combined_entities[j])
                       ELSE combined_entities[j] = ner_results[HeadOf(j, total)]
            /\ \A k \in 1..Len(organizations) :
                  \E j \in 1..Len(combined_entities) :
                      organizations[k] = combined_entities[j]
            /\ \A k \in 1..Len(entity_list) :
                  \E m \in 1..Len(organizations) :
                      entity_list[k] = organizations[m].word

C8_Witness ==
    /\ pc = "done"
    /\ Len(ner_results) = 3
    /\ Len(organizations) = 2
    /\ IsContinuation(ner_results[3])
    /\ ~IsContinuation(ner_results[2])
    /\ organizations[1] = ner_results[1]
    /\ ~SliceOk(organizations[1])
    /\ SliceOk(organizations[2])
    /\ organizations[2].end = ner_results[3].end
    /\ entity_list = <<organizations[1].word>>

(***************************************************************************)
(* C9: the injection loop appends one ORG entity per token that begins     *)
(* with '@', in token order; its text is the token and its span starts at  *)
(* the first occurrence of the token string in the original text, so equal *)
(* tokens all get the span of the first match.                             *)
(***************************************************************************)
C9_MentionSpans ==
    pc = "inject" =>
        LET merged == Cardinality(Heads(Len(ner_results)))
            count == Len(combined_entities) - merged
            seen == {k \in 1..idx : tokens[k][1] = "@"}
        IN  /\ count = Cardinality(seen)
            /\ idx = Len(tokens) => count = Cardinality(MentionStarts)
            /\ \A c \in 1..count :
                  LET e == combined_entities[merged + c]
                      p == CHOOSE q \in MentionStarts :
                              Cardinality({m \in MentionStarts : m <= q}) = c
                      w == TokenAt(p)
                  IN  /\ e.entity_group = "ORG"
                      /\ e.word = w
                      /\ e.end = e.start + Len(w)
                      /\ Chars(e.start, e.end) = w
                      /\ \A q \in 0..(e.start - 1) : Chars(q, q + Len(w)) # w

C9_Witness ==
    /\ pc = "inject"
    /\ idx = Len(tokens)
    /\ ner_results = <<>>
    /\ Len(combined_entities) = 2
    /\ combined_entities[1] = combined_entities[2]
    /\ Cardinality(MentionStarts) = 2

\* reachable as well: the first match lies inside a longer token
C9_MatchInsideToken ==
    /\ pc = "inject"
    /\ idx = Len(tokens)
    /\ ner_results = <<>>
    /\ Len(combined_entities) = 1
    /\ (combined_entities[1].start + 1) \notin MentionStarts

(***************************************************************************)
(* C10 as stated: while a cluster is being built, cluster_end never        *)
(* decreases, so the context window starts at or after the end of every    *)
(* mention of the cluster.                                                 *)
(***************************************************************************)
C10_ClusterEndMonotone ==
    [][(pc = "inner" /\ pc' = "inner") => end_idx' >= end_idx]_vars

\* the same for the first mention of the cluster, as a state predicate
C10_WindowAfterFirstMention ==
    pc = "record" => end_idx >= org.end

\* reachable with a tagger that returns nothing: in "@a @" the token "@" is
\* found inside "@a", the cluster end falls back from 2 to 1 and the window
\* "a @" overlaps the mention "@a"
C10_NestedMentions ==
    /\ pc = "record"
    /\ ner_results = <<>>
    /\ test_sentence = <<"@", "a", " ", "@">>
    /\ org.end = 2
    /\ end_idx = 1
    /\ context = <<"a", " ", "@">>

====
